---------------------------- MODULE Spec2Model ----------------------------
(***************************************************************************)
(* Retirement dashboard (Bank of Anthos add-on): the retirement-projection *)
(* calculator, the goal-gap calculation and the transaction classifiers.   *)
(*                                                                         *)
(* Numbers.  Python floats are modelled in fixed point:                    *)
(*   - money is an integer number of cents ($500 is 50000);                *)
(*   - rates and growth factors are integers in units of 1/FP              *)
(*     (7% is 70000, the factor 1.05 is 1050000);                          *)
(*   - every product / quotient is rounded to the nearest unit, as a float *)
(*     operation rounds to the nearest representable value.                *)
(* A JSON value that is not a number is the token NonNumeric; a key that   *)
(* is not in the JSON object is the token Absent.                          *)
(***************************************************************************)
EXTENDS Integers, Sequences, FiniteSets, TLC

\* ------------------------------------------------------------------------
\* Fixed-point arithmetic
\* ------------------------------------------------------------------------

\* resolution of rates and growth factors
FP == 1000 * 1000

\* money units per dollar: results are rounded to 2 decimals
MoneyUnit == 100

Abs(x) == IF x < 0 THEN 0 - x ELSE x

Sgn(x) == IF x < 0 THEN 0 - 1 ELSE IF x > 0 THEN 1 ELSE 0

Max(a, b) == IF a >= b THEN a ELSE b

Min(a, b) == IF a <= b THEN a ELSE b

\* <<q, r>> with a * b = q * c + r and 0 <= r < c, computed without ever
\* forming a * b (for a, b >= 0 and 0 < c < 2^30)
RECURSIVE MulDivQR(_, _, _)
MulDivQR(a, b, c) ==
    IF b = 0 THEN <<0, 0>>
    ELSE LET h  == MulDivQR(a, b \div 2, c)
             q2 == 2 * h[1] + ((2 * h[2]) \div c)
             r2 == (2 * h[2]) % c
             q3 == q2 + (IF b % 2 = 1 THEN a \div c ELSE 0)
             r3 == r2 + (IF b % 2 = 1 THEN a % c ELSE 0)
         IN  <<q3 + (r3 \div c), r3 % c>>

\* a * b / c rounded to the nearest integer (half away from zero), c > 0
MulDiv(a, b, c) ==
    IF c = 0 THEN 1 \div c
    ELSE IF a = 0 \/ b = 0 THEN 0
    ELSE LET qr == MulDivQR(Max(Abs(a), Abs(b)), Min(Abs(a), Abs(b)), c)
             q  == qr[1] + (IF 2 * qr[2] >= c THEN 1 ELSE 0)
         IN  Sgn(a) * Sgn(b) * q

\* float(cents) / 100: an amount of the bank's API (integer cents) in dollars
FromCents(cents) == MulDiv(cents, MoneyUnit, 100)

\* product of two fixed-point numbers, or of money and a fixed-point factor:
\* a * b / FP rounded to the nearest unit, by long multiplication in base
\* 1000 (FP = 1000 * 1000)
FMul(a, b) ==
    IF a = 0 \/ b = 0 THEN 0
    ELSE LET ah  == Abs(a) \div 1000
             al  == Abs(a) % 1000
             bh  == Abs(b) \div 1000
             bl  == Abs(b) % 1000
             mid == ah * bl + al * bh + ((al * bl) \div 1000)
             q   == ah * bh + (mid \div 1000)
             r   == (mid % 1000) * 1000 + ((al * bl) % 1000)
         IN  Sgn(a) * Sgn(b) * (q + (IF 2 * r >= FP THEN 1 ELSE 0))

\* quotient of two fixed-point numbers as a fixed-point number, or of money
\* by a fixed-point factor as money (d # 0)
FDiv(a, d) == Sgn(d) * MulDiv(a, FP, Abs(d))

\* base ** n for a fixed-point base >= 0 and an integer n >= 0
RECURSIVE PowNat(_, _)
PowNat(base, n) ==
    IF n = 0 THEN FP
    ELSE IF n % 2 = 0
         THEN LET h == PowNat(base, n \div 2) IN FMul(h, h)
         ELSE FMul(base, PowNat(base, n - 1))

\* Python's base ** n for an integer n; 0.0 ** n raises ZeroDivisionError
\* for n < 0, so callers test PowRaises first
PowRaises(base, n) == base = 0 /\ n < 0

Pow(base, n) ==
    IF n >= 0 THEN PowNat(base, n) ELSE FDiv(FP, PowNat(base, 0 - n))

\* ------------------------------------------------------------------------
\* JSON values
\* ------------------------------------------------------------------------

\* a JSON number
Num(n) == [kind |-> "number", val |-> n]

\* a JSON value that is not a number (a string, null, a list, ...)
NonNumeric == [kind |-> "non-numeric", val |-> 0]

\* a key that the JSON object does not have
Absent == [kind |-> "absent", val |-> 0]

IsNumber(v) == v.kind = "number"

IsAbsent(v) == v.kind = "absent"

\* dict.get(key, default)
Get(v, default) == IF IsAbsent(v) THEN Num(default) ELSE v

\* ------------------------------------------------------------------------
\* FinancialAnalyzer.calculate_retirement_projections
\* ------------------------------------------------------------------------

\* MUTANT of assess_retirement_adequacy: the comparisons are strict
assess_retirement_adequacy_Exclusive(replacement_ratio) ==
    IF replacement_ratio > 80 * 1000 THEN "Excellent"
    ELSE IF replacement_ratio > 70 * 1000 THEN "Good"
    ELSE IF replacement_ratio > 60 * 1000 THEN "Fair"
    ELSE IF replacement_ratio > 40 * 1000 THEN "Below target"
    ELSE "Critical"

\* _assess_retirement_adequacy; the ratio is in units of 1/1000 percent
assess_retirement_adequacy(replacement_ratio) ==
    IF replacement_ratio >= 80 * 1000 THEN "Excellent"
    ELSE IF replacement_ratio >= 70 * 1000 THEN "Good"
    ELSE IF replacement_ratio >= 60 * 1000 THEN "Fair"
    ELSE IF replacement_ratio >= 40 * 1000 THEN "Below target"
    ELSE "Critical"

\* _get_default_projections: what the except branch returns
get_default_projections ==
    [ total_savings       |-> 0,
      monthly_income      |-> 0,
      annual_income       |-> 0,
      replacement_ratio   |-> 0,
      total_contributions |-> 0,
      investment_growth   |-> 0,
      years_to_retirement |-> 35,
      adequacy_assessment |-> "Unable to calculate" ]

\* MUTANT of FutureValueContributions: the contributions are added without
\* compounding
FutureValueContributions_NoCompounding(monthly_savings, monthly_return, months_to_retirement) ==
    monthly_savings * months_to_retirement

\* future value of the monthly contributions (lines 139-146): the annuity
\* formula when the monthly rate is positive, payment * months otherwise
FutureValueContributions(monthly_savings, monthly_return, months_to_retirement) ==
    IF monthly_return > 0
    THEN FMul(monthly_savings,
              FDiv(Pow(FP + monthly_return, months_to_retirement) - FP,
                   monthly_return))
    ELSE monthly_savings * months_to_retirement

\* the inputs as the try block reads them
ScenarioFields(s) ==
    [ current_age     |-> Get(s.current_age, 30),
      retirement_age  |-> Get(s.retirement_age, 65),
      monthly_savings |-> Get(s.monthly_savings, 500 * MoneyUnit),
      expected_return |-> Get(s.expected_return, 7),
      current_savings |-> Get(s.current_savings, 0) ]

\* TRUE when a statement of the try block raises: arithmetic on a value that
\* is not a number (TypeError) or 0.0 to a negative power (ZeroDivisionError)
ProjectionRaises(s) ==
    LET f == ScenarioFields(s)
    IN  \/ ~IsNumber(f.current_age)
        \/ ~IsNumber(f.retirement_age)
        \/ ~IsNumber(f.monthly_savings)
        \/ ~IsNumber(f.expected_return)
        \/ ~IsNumber(f.current_savings)
        \/ (~IsAbsent(s.current_annual_income) /\ ~IsNumber(s.current_annual_income))
        \/ PowRaises(FP + MulDiv(f.expected_return.val, FP, 100),
                     f.retirement_age.val - f.current_age.val)

\* MUTANT of future_value_current: simple interest, and the rate is
\* subtracted
future_value_current_RateSubtracted(principal, annual_rate, years) ==
    FMul(principal, FP - annual_rate * years)

\* current_savings * ((1 + expected_return) ** years_to_retirement), and the
\* same expression on current_balance and cagr in get_user_financial_data
future_value_current(principal, annual_rate, years) ==
    FMul(principal, Pow(FP + annual_rate, years))

\* round(x, 1) of a percentage held in units of 1/1000 percent
Round1(x) == MulDiv(x, 1, 100) * 100

\* the values the try block computes before it rounds them (lines 127-160),
\* for inputs on which nothing raises; replacement_ratio is in units of
\* 1/1000 percent
ProjectionValues(s) ==
    LET f                      == [k \in DOMAIN ScenarioFields(s) |->
                                         ScenarioFields(s)[k].val]
        expected_return        == MulDiv(f.expected_return, FP, 100)
        years_to_retirement    == f.retirement_age - f.current_age
        months_to_retirement   == years_to_retirement * 12
        monthly_return         == MulDiv(expected_return, 1, 12)
        total_savings          ==
            future_value_current(f.current_savings, expected_return,
                                 years_to_retirement)
                + FutureValueContributions(f.monthly_savings, monthly_return,
                                           months_to_retirement)
        annual_withdrawal      == MulDiv(total_savings, 4, 100)
        monthly_retirement_income == MulDiv(annual_withdrawal, 1, 12)
        current_annual_income  ==
            Get(s.current_annual_income, MulDiv(f.monthly_savings * 12, 10, 2)).val
        replacement_ratio      ==
            IF current_annual_income > 0
            THEN MulDiv(annual_withdrawal, 100 * 1000, current_annual_income)
            ELSE 0
        total_contributions    ==
            f.current_savings + (f.monthly_savings * months_to_retirement)
        investment_growth      == total_savings - total_contributions
    IN  [ total_savings       |-> total_savings,
          monthly_income      |-> monthly_retirement_income,
          annual_income       |-> annual_withdrawal,
          replacement_ratio   |-> replacement_ratio,
          total_contributions |-> total_contributions,
          investment_growth   |-> investment_growth,
          years_to_retirement |-> years_to_retirement ]

\* the dictionary the try block returns (lines 162-171): the ratio is rounded
\* to one decimal, the assessment is made on the ratio before rounding
ComputeProjections(s) ==
    LET v == ProjectionValues(s)
    IN  [ total_savings       |-> v.total_savings,
          monthly_income      |-> v.monthly_income,
          annual_income       |-> v.annual_income,
          replacement_ratio   |-> Round1(v.replacement_ratio),
          total_contributions |-> v.total_contributions,
          investment_growth   |-> v.investment_growth,
          years_to_retirement |-> v.years_to_retirement,
          adequacy_assessment |-> assess_retirement_adequacy(v.replacement_ratio) ]

\* MUTANT of calculate_retirement_projections: the annuity formula is applied
\* without the zero-rate branch, so a monthly rate of 0 divides by zero and
\* the except branch answers
calculate_retirement_projections_UnguardedDivision(s) ==
    IF ProjectionRaises(s) THEN get_default_projections
    ELSE IF MulDiv(MulDiv(ScenarioFields(s).expected_return.val, FP, 100), 1, 12) = 0
    THEN get_default_projections
    ELSE ComputeProjections(s)

\* the whole method: try / except Exception
calculate_retirement_projections(s) ==
    IF ProjectionRaises(s) THEN get_default_projections
    ELSE ComputeProjections(s)

\* ------------------------------------------------------------------------
\* Transactions
\* ------------------------------------------------------------------------

\* the account of the authenticated user (the token's acct claim)
UserAccount == "1011226111"

\* the external bank of the demo data: its number is the substring that the
\* dashboard looks for
ExternalAccount == "9099791699"

\* another account of the same bank
LocalAccount == "1033623433"

\* an account number shorter than 8 characters
ShortAccount == "42"

\* the value of transaction.get(key, '') when the key is missing
NoAccount == ""

\* '9099791699' in account
ContainsExternal(account) == account = ExternalAccount

\* len(account)
AccountLen(account) ==
    IF account = NoAccount THEN 0
    ELSE IF account = ShortAccount THEN 2
    ELSE 10

\* a timestamp: kind "naive" is an ISO-8601 string without UTC offset, "aware"
\* one with an offset (or Z), "malformed" a string fromisoformat rejects,
\* "absent" a missing key, "notstring" a JSON null or number; day is the date
Timestamp(kind, day) == [kind |-> kind, day |-> day]

Tx(amount, to, from, ts) ==
    [amount |-> amount, toAccountNum |-> to, fromAccountNum |-> from,
     timestamp |-> ts]

RecentDay == 100

OldDay == 5

Deposit == Tx(Num(300000), UserAccount, ExternalAccount, Timestamp("naive", RecentDay))

BigDeposit == Tx(Num(1500000), UserAccount, ExternalAccount, Timestamp("naive", RecentDay))

Payment == Tx(Num(120000), LocalAccount, UserAccount, Timestamp("naive", RecentDay))

TransferIn == Tx(Num(80000), UserAccount, LocalAccount, Timestamp("naive", RecentDay))

BadAmount == Tx(NonNumeric, UserAccount, ExternalAccount, Timestamp("naive", RecentDay))

MalformedTs == Tx(Num(50000), UserAccount, ExternalAccount, Timestamp("malformed", 0))

AbsentTs == Tx(Num(50000), UserAccount, ExternalAccount, Timestamp("absent", 0))

NullTs == Tx(Num(50000), UserAccount, ExternalAccount, Timestamp("notstring", 0))

AwareTs == Tx(Num(50000), UserAccount, ExternalAccount, Timestamp("aware", RecentDay))

OldDeposit == Tx(Num(50000), UserAccount, ExternalAccount, Timestamp("naive", OldDay))

NoAccounts == Tx(Num(70000), NoAccount, NoAccount, Timestamp("naive", RecentDay))

ShortPayment == Tx(Num(60000), ShortAccount, UserAccount, Timestamp("naive", RecentDay))

TxSet == { Deposit, BigDeposit, Payment, TransferIn, BadAmount, MalformedTs,
           AbsentTs, NullTs, AwareTs, OldDeposit, NoAccounts, ShortPayment }

\* longest transaction list of a request (apart from full pages)
MaxTx == 2

TxLists == UNION { [1..n -> TxSet] : n \in 0..MaxTx }

\* sum of seq[i] for i in lo..hi, by halving
RECURSIVE SumRange(_, _, _)
SumRange(seq, lo, hi) ==
    IF lo > hi THEN 0
    ELSE IF lo = hi THEN seq[lo]
    ELSE LET mid == (lo + hi) \div 2
         IN  SumRange(seq, lo, mid) + SumRange(seq, mid + 1, hi)

\* the accumulation of one amount per record of the list
SumOver(amounts) == SumRange(amounts, 1, Len(amounts))

\* ------------------------------------------------------------------------
\* FinancialAnalyzer.calculate_income_expenses
\* ------------------------------------------------------------------------

WindowDays == 90

\* first loop: the record is appended to recent_transactions
Retained(t, now) ==
    /\ t.timestamp.kind = "naive"
    /\ t.timestamp.day >= now - WindowDays

\* first loop: the statement in the inner try raises something the inner
\* except (ValueError, TypeError) does not catch: a timestamp that is not a
\* string has no replace (AttributeError)
TimestampEscapes(t) == t.timestamp.kind = "notstring"

\* second loop: float(amount) raises (ValueError or TypeError)
AmountRaises(t) == t.amount.kind = "non-numeric"

\* the dollars of a record whose amount parses
AmountOf(t) == FromCents(Get(t.amount, 0).val)

\* TRUE when the outer except Exception is taken
IncomeExpensesRaises(transactions, account_id, now) ==
    \/ \E i \in 1..Len(transactions) : TimestampEscapes(transactions[i])
    \/ \E i \in 1..Len(transactions) :
          Retained(transactions[i], now) /\ AmountRaises(transactions[i])

calculate_income_expenses(transactions, account_id, now) ==
    LET recent == SelectSeq(transactions, LAMBDA t : Retained(t, now))
        Income(t) == IF t.toAccountNum = account_id THEN AmountOf(t) ELSE 0
        Expense(t) ==
            IF t.toAccountNum # account_id /\ t.fromAccountNum = account_id
            THEN AmountOf(t) ELSE 0
        total_income == SumOver([i \in 1..Len(recent) |-> Income(recent[i])])
        total_expenses == SumOver([i \in 1..Len(recent) |-> Expense(recent[i])])
        \* months = max(min(3, len / 10), 1), in tenths of a month
        tenths == Max(Min(30, Len(recent)), 10)
        zero == [monthly_income |-> 0, monthly_expenses |-> 0]
    IN  IF transactions = <<>> THEN zero
        ELSE IF IncomeExpensesRaises(transactions, account_id, now) THEN zero
        ELSE IF recent = <<>> THEN zero
        ELSE [monthly_income   |-> MulDiv(total_income, 10, tenths),
              monthly_expenses |-> MulDiv(total_expenses, 10, tenths)]

\* ------------------------------------------------------------------------
\* FinancialAnalyzer.analyze_financial_health
\* ------------------------------------------------------------------------

\* units of the health score per point
ScoreUnit == 1000

\* a spending analysis: has_average is FALSE for the dictionaries that have
\* no average_expense and no total_expenses ('No data available', 'Analysis
\* unavailable')
SpendingAnalysis(has_average, average_expense, total_expenses) ==
    [has_average |-> has_average, average_expense |-> average_expense,
     total_expenses |-> total_expenses]

NoSpendingData == SpendingAnalysis(FALSE, 0, 0)

\* _analyze_spending_patterns: the average of the amounts of the records
\* whose source is the account; an amount that float() rejects ends the
\* analysis in the except branch
analyze_spending_patterns(transactions, account_id) ==
    LET expenses == SelectSeq(transactions,
                              LAMBDA t : t.fromAccountNum = account_id)
        total == SumOver([i \in 1..Len(expenses) |-> AmountOf(expenses[i])])
    IN  IF transactions = <<>> THEN NoSpendingData
        ELSE IF \E i \in 1..Len(expenses) : AmountRaises(expenses[i])
        THEN NoSpendingData
        ELSE IF expenses = <<>> THEN SpendingAnalysis(TRUE, 0, 0)
        ELSE SpendingAnalysis(TRUE, MulDiv(total, 1, Len(expenses)), Len(expenses))

\* MUTANT of calculate_health_score: the proportional branches are not
\* clamped at 0
calculate_health_score_Unclamped(savings_rate, net_worth, monthly_income, spending_analysis) ==
    LET savings == IF savings_rate >= 5 * 1000 THEN 16 * ScoreUnit
                   ELSE MulDiv(savings_rate, 32, 10)
        emergency == IF monthly_income > 0
                     THEN MulDiv(MulDiv(net_worth, FP, monthly_income), 4 * ScoreUnit, FP)
                     ELSE 0
    IN  Min(100 * ScoreUnit, savings + emergency)

\* _calculate_health_score; savings_rate in 1/1000 percent, money in cents,
\* the score in 1/ScoreUnit points
calculate_health_score(savings_rate, net_worth, monthly_income, spending_analysis) ==
    LET savings ==
            IF savings_rate >= 20 * 1000 THEN 40 * ScoreUnit
            ELSE IF savings_rate >= 15 * 1000 THEN 32 * ScoreUnit
            ELSE IF savings_rate >= 10 * 1000 THEN 24 * ScoreUnit
            ELSE IF savings_rate >= 5 * 1000 THEN 16 * ScoreUnit
            ELSE Max(0, MulDiv(savings_rate, 32, 10))
        annual_income == monthly_income * 12
        net_worth_ratio == MulDiv(net_worth, FP, annual_income)
        worth ==
            IF annual_income > 0
            THEN IF net_worth_ratio >= 2 * FP THEN 30 * ScoreUnit
                 ELSE IF net_worth_ratio >= FP THEN 25 * ScoreUnit
                 ELSE IF 2 * net_worth_ratio >= FP THEN 20 * ScoreUnit
                 ELSE Max(0, MulDiv(net_worth_ratio, 40 * ScoreUnit, FP))
            ELSE 0
        avg_expense == IF spending_analysis.has_average
                       THEN spending_analysis.average_expense ELSE 0
        total_expenses == IF spending_analysis.has_average
                          THEN spending_analysis.total_expenses ELSE 1
        expense_ratio == MulDiv(avg_expense * total_expenses, FP, monthly_income)
        spending ==
            IF monthly_income > 0
            THEN IF 10 * expense_ratio <= 7 * FP THEN 20 * ScoreUnit
                 ELSE IF 10 * expense_ratio <= 8 * FP THEN 16 * ScoreUnit
                 ELSE IF 10 * expense_ratio <= 9 * FP THEN 12 * ScoreUnit
                 ELSE Max(0, MulDiv(FP - expense_ratio, 100 * ScoreUnit, FP))
            ELSE 0
        emergency_months == IF monthly_income > 0
                            THEN MulDiv(net_worth, FP, monthly_income) ELSE 0
        emergency ==
            IF emergency_months >= 6 * FP THEN 10 * ScoreUnit
            ELSE IF emergency_months >= 3 * FP THEN 7 * ScoreUnit
            ELSE IF emergency_months >= FP THEN 4 * ScoreUnit
            ELSE Max(0, MulDiv(emergency_months, 4 * ScoreUnit, FP))
    IN  Min(100 * ScoreUnit, savings + worth + spending + emergency)

\* analyze_financial_health (lines 35-62), without the texts of the
\* recommendations; percentages in 1/1000 percent, months in 1/1000 month
analyze_financial_health(financial_data) ==
    LET current_balance == financial_data.current_balance
        monthly_income == financial_data.monthly_income
        monthly_expenses == financial_data.monthly_expenses
        monthly_savings == monthly_income - monthly_expenses
        savings_rate == IF monthly_income > 0
                        THEN MulDiv(monthly_savings, 100 * 1000, monthly_income)
                        ELSE 0
        spending_analysis ==
            analyze_spending_patterns(financial_data.transactions,
                                      financial_data.account_id)
        health_score == calculate_health_score(savings_rate, current_balance,
                                               monthly_income, spending_analysis)
        emergency_fund_months ==
            IF monthly_expenses > 0
            THEN MulDiv(current_balance, 1000, monthly_expenses) ELSE 0
        debt_to_income_ratio ==
            IF monthly_income > 0
            THEN Max(0, MulDiv(monthly_expenses - monthly_income, 100 * 1000,
                               monthly_income))
            ELSE 0
    IN  [ health_score          |-> Round1(health_score),
          savings_rate          |-> Round1(savings_rate),
          monthly_savings       |-> monthly_savings,
          emergency_fund_months |-> Round1(emergency_fund_months),
          debt_to_income_ratio  |-> Round1(debt_to_income_ratio),
          spending_analysis     |-> spending_analysis ]

\* ------------------------------------------------------------------------
\* get_user_financial_data (app.py)
\* ------------------------------------------------------------------------

\* A response of the balance or history service:
\*   kind "ok"     : status 200; body is the parsed JSON
\*   kind "status" : any other status
\*   kind "error"  : requests.get raised a RequestException
OkResponse(body) == [kind |-> "ok", body |-> body]

\* a history body that is a JSON list
ListBody(items) == [islist |-> TRUE, items |-> items]

\* a history body that is JSON but not a list
NotAList == [islist |-> FALSE, items |-> <<>>]

StatusResponse == [kind |-> "status", body |-> NotAList]

ErrorResponse == [kind |-> "error", body |-> NotAList]

IsList(body) == body.islist

max_pages == 10

PageSize == 50

\* a page of PageSize copies of one record
FullPage(t) == [i \in 1..PageSize |-> t]

\* The history service as the pagination loop sees it: `full` full pages, each
\* FullPage(fullTx), followed by the response `last`.
History(full, fullTx, last) == [full |-> full, fullTx |-> fullTx, last |-> last]

\* the response to the request for page number `page`
PageResponse(history, page) ==
    IF page <= history.full THEN OkResponse(ListBody(FullPage(history.fullTx)))
    ELSE history.last

\* MUTANT of FetchPages: one request, whatever the page holds
FetchPages_OnePage(history, page, transactions) ==
    LET resp == PageResponse(history, page)
    IN  [ transactions |-> IF resp.kind = "ok" /\ IsList(resp.body)
                           THEN transactions \o resp.body.items
                           ELSE transactions,
          requests |-> page, raised |-> resp.kind = "error" ]

\* The while loop of lines 458-484, from page `page` with `transactions`
\* collected so far.  Result: the collected transactions, the number of
\* history requests made, and whether a request raised.
RECURSIVE FetchPages(_, _, _)
FetchPages(history, page, transactions) ==
    IF page > max_pages
    THEN [transactions |-> transactions, requests |-> page - 1, raised |-> FALSE]
    ELSE LET resp == PageResponse(history, page)
             page_transactions == IF IsList(resp.body) THEN resp.body.items ELSE <<>>
             stop(txs, r) == [transactions |-> txs, requests |-> page, raised |-> r]
         IN  IF resp.kind = "error" THEN stop(transactions, TRUE)
             ELSE IF resp.kind # "ok" THEN stop(transactions, FALSE)
             ELSE IF page_transactions = <<>> THEN stop(transactions, FALSE)
             ELSE IF Len(page_transactions) < PageSize
                  THEN stop(transactions \o page_transactions, FALSE)
             ELSE FetchPages(history, page + 1, transactions \o page_transactions)

\* lines 496-514: what one record adds to total_deposits; a record whose
\* amount raises in float() is skipped by the inner except
DepositOf(t, account_id) ==
    IF AmountRaises(t) THEN 0
    ELSE IF t.toAccountNum = account_id /\ ContainsExternal(t.fromAccountNum)
    THEN AmountOf(t)
    ELSE 0

\* lines 496-514: what one record adds to total_payments
PaymentOf(t, account_id) ==
    IF AmountRaises(t) THEN 0
    ELSE IF t.toAccountNum = account_id /\ ContainsExternal(t.fromAccountNum)
    THEN 0
    ELSE IF /\ t.fromAccountNum = account_id
            /\ t.toAccountNum # account_id
            /\ AccountLen(t.toAccountNum) >= 8
            /\ ~ContainsExternal(t.toAccountNum)
    THEN AmountOf(t)
    ELSE 0

default_monthly_income == 4500 * MoneyUnit

default_monthly_expenses == 2800 * MoneyUnit

months_of_data == 3

\* lines 491-526: monthly income and expenses from the fetched transactions
EstimateMonthly(transactions, account_id) ==
    LET D(t) == DepositOf(t, account_id)
        P(t) == PaymentOf(t, account_id)
        total_deposits == SumOver([i \in 1..Len(transactions) |-> D(transactions[i])])
        total_payments == SumOver([i \in 1..Len(transactions) |-> P(transactions[i])])
    IN  IF transactions # <<>>
        THEN [monthly_income   |-> IF total_deposits > 0
                                   THEN MulDiv(total_deposits, 1, months_of_data)
                                   ELSE default_monthly_income,
              monthly_expenses |-> IF total_payments > 0
                                   THEN MulDiv(total_payments, 1, months_of_data)
                                   ELSE default_monthly_expenses]
        ELSE [monthly_income   |-> default_monthly_income,
              monthly_expenses |-> default_monthly_expenses]

user_age == 35

retirement_age_default == 65

min_years_to_retirement == 5

retirement_goal == 1500000 * MoneyUnit

\* cagr = 0.05
cagr == MulDiv(5, FP, 100)

\* MUTANT of AdditionalMonthlySavings: the amount is spread over the months
\* without compounding
AdditionalMonthlySavings_Linear(amount_still_needed, years_to_retirement) ==
    IF amount_still_needed > 0 /\ years_to_retirement > 0
    THEN MulDiv(amount_still_needed, 1, years_to_retirement * 12)
    ELSE 0

\* MUTANT of AdditionalMonthlySavings: the number of years is taken for the
\* number of months
AdditionalMonthlySavings_YearsAsMonths(amount_still_needed, years_to_retirement) ==
    IF amount_still_needed > 0 /\ years_to_retirement > 0
    THEN LET monthly_rate == MulDiv(cagr, 1, 12)
         IN  FDiv(amount_still_needed,
                  FDiv(Pow(FP + monthly_rate, years_to_retirement) - FP, monthly_rate))
    ELSE 0

\* lines 552-560: the monthly savings that accumulate to amount_still_needed
AdditionalMonthlySavings(amount_still_needed, years_to_retirement) ==
    IF amount_still_needed > 0 /\ years_to_retirement > 0
    THEN LET monthly_rate == MulDiv(cagr, 1, 12)
             total_months == years_to_retirement * 12
         IN  IF monthly_rate > 0
             THEN FDiv(amount_still_needed,
                       FDiv(Pow(FP + monthly_rate, total_months) - FP, monthly_rate))
             ELSE MulDiv(amount_still_needed, 1, total_months)
    ELSE 0

\* MUTANT of SavingsGap: the difference is not clamped at 0
SavingsGap_Unclamped(additional_monthly_savings, monthly_income, monthly_expenses) ==
    additional_monthly_savings - (monthly_income - monthly_expenses)

\* lines 563-564
SavingsGap(additional_monthly_savings, monthly_income, monthly_expenses) ==
    LET current_monthly_savings == monthly_income - monthly_expenses
    IN  Max(0, additional_monthly_savings - current_monthly_savings)

\* lines 533-570: the goal fields added to financial_data
GoalGap(current_balance, monthly_income, monthly_expenses) ==
    LET years_to_retirement == Max(retirement_age_default - user_age,
                                   min_years_to_retirement)
        amount_still_needed ==
            Max(0, retirement_goal
                     - future_value_current(current_balance, cagr, years_to_retirement))
        additional_monthly_savings ==
            AdditionalMonthlySavings(amount_still_needed, years_to_retirement)
    IN  [ user_age            |-> user_age,
          years_to_retirement |-> years_to_retirement,
          retirement_goal     |-> retirement_goal,
          additional_monthly_savings_needed |-> additional_monthly_savings,
          savings_gap         |-> SavingsGap(additional_monthly_savings,
                                             monthly_income, monthly_expenses) ]

\* lines 428-436
InitialFinancialData(account_id) ==
    [ account_id       |-> account_id,
      current_balance  |-> 0,
      transactions     |-> <<>>,
      monthly_income   |-> 0,
      monthly_expenses |-> 0,
      current_income   |-> 0,
      desired_income   |-> 0 ]

\* MUTANT of get_user_financial_data: the goal fields are computed before the
\* transactions are classified, from the initial monthly_income and
\* monthly_expenses
get_user_financial_data_GoalBeforeClassifier(account_id, balance, history) ==
    LET fd0 == InitialFinancialData(account_id)
        returned(fd, n) == [outcome |-> "returned", data |-> fd, history_requests |-> n]
        fd1 == IF balance.kind = "ok"
               THEN [fd0 EXCEPT !.current_balance = FromCents(balance.body.val)]
               ELSE fd0
        fetched == FetchPages(history, 1, <<>>)
        est == EstimateMonthly(fetched.transactions, account_id)
        fd2 == [fd1 EXCEPT !.transactions     = fetched.transactions,
                           !.monthly_income   = est.monthly_income,
                           !.monthly_expenses = est.monthly_expenses,
                           !.current_income   = est.monthly_income * 12,
                           !.desired_income   = MulDiv(est.monthly_income * 12, 13, 10)]
    IN  IF balance.kind = "error" THEN returned(fd0, 0)
        ELSE IF balance.kind = "ok" /\ ~IsNumber(balance.body)
        THEN [outcome |-> "raised", data |-> fd0, history_requests |-> 0]
        ELSE IF fetched.raised THEN returned(fd1, fetched.requests)
        ELSE returned(fd2 @@ GoalGap(fd1.current_balance, fd1.monthly_income,
                                     fd1.monthly_expenses),
                      fetched.requests)

\* MUTANT of get_user_financial_data: user_age is stored before the requests
\* are made
get_user_financial_data_AgeBeforeFetch(account_id, balance, history) ==
    LET fd0 == InitialFinancialData(account_id) @@ [user_age |-> user_age]
        returned(fd, n) == [outcome |-> "returned", data |-> fd, history_requests |-> n]
        fd1 == IF balance.kind = "ok"
               THEN [fd0 EXCEPT !.current_balance = FromCents(balance.body.val)]
               ELSE fd0
        fetched == FetchPages(history, 1, <<>>)
        est == EstimateMonthly(fetched.transactions, account_id)
        fd2 == [fd1 EXCEPT !.transactions     = fetched.transactions,
                           !.monthly_income   = est.monthly_income,
                           !.monthly_expenses = est.monthly_expenses,
                           !.current_income   = est.monthly_income * 12,
                           !.desired_income   = MulDiv(est.monthly_income * 12, 13, 10)]
    IN  IF balance.kind = "error" THEN returned(fd0, 0)
        ELSE IF balance.kind = "ok" /\ ~IsNumber(balance.body)
        THEN [outcome |-> "raised", data |-> fd0, history_requests |-> 0]
        ELSE IF fetched.raised THEN returned(fd1, fetched.requests)
        ELSE returned(fd2 @@ GoalGap(fd2.current_balance, fd2.monthly_income,
                                     fd2.monthly_expenses),
                      fetched.requests)

\* The whole function.  Result: outcome "returned" with the dictionary and
\* the number of history requests, or outcome "raised" when float(balance_data)
\* raises, which the function's except requests.RequestException lets through.
get_user_financial_data(account_id, balance, history) ==
    LET fd0 == InitialFinancialData(account_id)
        returned(fd, n) == [outcome |-> "returned", data |-> fd, history_requests |-> n]
        fd1 == IF balance.kind = "ok"
               THEN [fd0 EXCEPT !.current_balance = FromCents(balance.body.val)]
               ELSE fd0
        fetched == FetchPages(history, 1, <<>>)
        est == EstimateMonthly(fetched.transactions, account_id)
        fd2 == [fd1 EXCEPT !.transactions     = fetched.transactions,
                           !.monthly_income   = est.monthly_income,
                           !.monthly_expenses = est.monthly_expenses,
                           !.current_income   = est.monthly_income * 12,
                           !.desired_income   = MulDiv(est.monthly_income * 12, 13, 10)]
    IN  IF balance.kind = "error" THEN returned(fd0, 0)
        ELSE IF balance.kind = "ok" /\ ~IsNumber(balance.body)
        THEN [outcome |-> "raised", data |-> fd0, history_requests |-> 0]
        ELSE IF fetched.raised THEN returned(fd1, fetched.requests)
        ELSE returned(fd2 @@ GoalGap(fd2.current_balance, fd2.monthly_income,
                                     fd2.monthly_expenses),
                      fetched.requests)

\* ------------------------------------------------------------------------
\* POST /api/scenario (app.py, retirement_scenario)
\* ------------------------------------------------------------------------

\* A token: "signed" verifies against the bank's public key, "forged" is a
\* well-formed JWT whose signature does not verify, "noacct" is a well-formed
\* JWT without an acct claim (its signature does not verify either),
\* "garbage" is not a JWT; NoToken is a missing header or cookie.
NoToken == "none"

\* lines 270-280: jwt.decode with the public key, and on failure jwt.decode
\* with verify_signature False
TokenDecodes(token) == token \in {"signed", "forged", "noacct"}

\* lines 258-264: the Bearer header if there is one, else the cookie
SelectToken(auth) == IF auth.header # NoToken THEN auth.header ELSE auth.cookie

\* a request body that is not a JSON object
NoBody == [nobody |-> TRUE]

IsObject(body) == DOMAIN body # {"nobody"}

required_fields == {"current_age", "retirement_age", "monthly_savings", "expected_return"}

NoProjections == [none |-> TRUE]

ScenarioResponse(status, projections, ai) ==
    [status |-> status, projections |-> projections, ai_invoked |-> ai]

\* the whole handler
retirement_scenario(auth, body) ==
    LET token == SelectToken(auth)
    IN  IF token = NoToken THEN ScenarioResponse(401, NoProjections, FALSE)
        ELSE IF ~TokenDecodes(token) THEN ScenarioResponse(401, NoProjections, FALSE)
        ELSE IF ~IsObject(body) THEN ScenarioResponse(500, NoProjections, FALSE)
        ELSE IF \E k \in required_fields : IsAbsent(body[k])
             THEN ScenarioResponse(400, NoProjections, FALSE)
        ELSE ScenarioResponse(200, calculate_retirement_projections(body), TRUE)

\* ------------------------------------------------------------------------
\* GET / (app.py, dashboard)
\* ------------------------------------------------------------------------

\* the token of the header 'Bearer ' with nothing after the space
EmptyToken == ""

\* `if token`: neither missing nor empty
Truthy(token) == token \notin {NoToken, EmptyToken}

\* the Authorization header: missing, 'Bearer <token>', or another scheme
NoHeader == [scheme |-> "none", token |-> NoToken]

BearerHeader(token) == [scheme |-> "Bearer", token |-> token]

BasicHeader == [scheme |-> "Basic", token |-> "garbage"]

\* lines 185-189: the key file is there and the RS256 signature verifies
TokenVerifies(token, key_present) == key_present /\ token = "signed"

\* the acct claim of a token that decodes; NoAccount when there is none
AccountOf(token) ==
    IF token \in {"signed", "forged"} THEN UserAccount ELSE NoAccount

\* MUTANT of HeaderOrCookie: the cookie comes before the header
HeaderOrCookie_CookieFirst(header, cookie) ==
    IF Truthy(cookie) THEN [token |-> cookie, source |-> "cookie"]
    ELSE [token |-> header.token, source |-> "header"]

\* lines 133-140: the token of a request whose URL parameter gave none
HeaderOrCookie(header, cookie) ==
    IF header.scheme = "Bearer"
    THEN [token |-> header.token, source |-> "header"]
    ELSE [token |-> cookie, source |-> "cookie"]

demo_account_id == "1011226111"

\* 12400.50
demo_balance == 12400 * MoneyUnit + MoneyUnit \div 2

demo_monthly_income == 5800 * MoneyUnit

demo_monthly_expenses == 3200 * MoneyUnit

\* get_bank_demo_data: `balance` and `history` are the responses to the two
\* requests, made without credentials; a history body that is not a list is
\* a JSON object
get_bank_demo_data(account_id, balance, history, now) ==
    LET fd0 == [InitialFinancialData(account_id) EXCEPT
                    !.current_balance = demo_balance]
        fd1 == IF balance.kind = "ok" /\ IsNumber(balance.body)
               THEN [fd0 EXCEPT !.current_balance = FromCents(balance.body.val)]
               ELSE fd0
        transactions == IF IsList(history.body) THEN history.body.items ELSE <<>>
        classified == calculate_income_expenses(transactions, account_id, now)
        WithIncome(fd, income, expenses) ==
            [fd EXCEPT !.monthly_income   = income,
                       !.monthly_expenses = expenses,
                       !.current_income   = income * 12,
                       !.desired_income   = MulDiv(income * 12, 13, 10)]
    IN  IF history.kind = "error"
        THEN [WithIncome(fd1, demo_monthly_income, demo_monthly_expenses)
                 EXCEPT !.current_balance = demo_balance]
        ELSE IF history.kind = "ok"
        THEN [WithIncome(fd1, classified.monthly_income,
                         classified.monthly_expenses)
                 EXCEPT !.transactions = transactions]
        ELSE WithIncome(fd1, demo_monthly_income, demo_monthly_expenses)

\* lines 168-174
FallbackDemoData ==
    [ current_balance  |-> 85000 * MoneyUnit,
      monthly_income   |-> 7500 * MoneyUnit,
      monthly_expenses |-> 4200 * MoneyUnit,
      current_income   |-> 90000 * MoneyUnit,
      desired_income   |-> 110000 * MoneyUnit ]

NoFinancialData == [absent |-> TRUE]

NoAnalysis == [status |-> "none"]

DemoAnalysis == [status |-> "demo"]

\* A response of the handler: the page, the status, the cookie it sets, and
\* the arguments of the template; `token`, `source` and `signature_verified`
\* record the token the handler went on with, and `history_requests` the
\* requests made with that token.  The texts of the advisor and the
\* recommended jobs are left out.
DashboardPage(page, status, set_cookie, token, source, verified, account_id, financial_data, analysis, requests) ==
    [ page |-> page, status |-> status, set_cookie |-> set_cookie,
      token |-> token, source |-> source, signature_verified |-> verified,
      account_id |-> account_id, financial_data |-> financial_data,
      analysis |-> analysis, history_requests |-> requests ]

\* lines 146-178: demo mode, with the data that get_bank_demo_data returned
DemoPage(demo_data) ==
    IF demo_data.current_balance >= 1000 * MoneyUnit
    THEN DashboardPage("demo", 200, NoToken, NoToken, "none", FALSE,
                       demo_account_id, demo_data, DemoAnalysis, 0)
    ELSE DashboardPage("demo", 200, NoToken, NoToken, "none", FALSE,
                       "DEMO123", FallbackDemoData, DemoAnalysis, 0)

\* lines 204-251: the page for a decoded token, `fetched` being the outcome of
\* get_user_financial_data
AuthenticatedPage(token, source, verified, fetched) ==
    IF fetched.outcome = "raised"
    THEN DashboardPage("error", 500, NoToken, token, source, verified,
                       AccountOf(token), NoFinancialData, NoAnalysis,
                       fetched.history_requests)
    ELSE DashboardPage("dashboard", 200, NoToken, token, source, verified,
                       AccountOf(token), fetched.data,
                       analyze_financial_health(fetched.data),
                       fetched.history_requests)

\* The whole handler
dashboard(url_token, header, cookie, key_present, balance, history, now) ==
    LET chosen == HeaderOrCookie(header, cookie)
    IN  IF Truthy(url_token) /\ TokenDecodes(url_token)
        THEN DashboardPage("redirect_dashboard", 302, url_token, url_token,
                           "url", FALSE, NoAccount, NoFinancialData,
                           NoAnalysis, 0)
        ELSE IF ~Truthy(chosen.token)
        THEN DemoPage(get_bank_demo_data(demo_account_id, balance,
                                         PageResponse(history, 1), now))
        ELSE IF ~TokenDecodes(chosen.token)
        THEN DashboardPage("redirect_login", 302, NoToken, chosen.token,
                           chosen.source, FALSE, NoAccount, NoFinancialData,
                           NoAnalysis, 0)
        ELSE AuthenticatedPage(chosen.token, chosen.source,
                               TokenVerifies(chosen.token, key_present),
                               get_user_financial_data(AccountOf(chosen.token),
                                                       balance, history))

\* ------------------------------------------------------------------------
\* POST /api/chat (app.py, chat_with_ai)
\* ------------------------------------------------------------------------

\* lines 690-695 and 698-703
ChatDemoData ==
    [ current_balance  |-> 85000 * MoneyUnit,
      monthly_income   |-> 7500 * MoneyUnit,
      monthly_expenses |-> 4200 * MoneyUnit,
      current_income   |-> 90000 * MoneyUnit ]

\* line 679: the cookie, or else the Authorization header without 'Bearer '
ChatToken(header, cookie) ==
    IF Truthy(cookie) THEN cookie
    ELSE IF header.scheme = "none" THEN EmptyToken
    ELSE header.token

\* lines 687-695: the data that get_user_financial_data returned, or the
\* demo data if it raised
FetchedOrDemo(fetched) ==
    IF fetched.outcome = "raised" THEN ChatDemoData ELSE fetched.data

\* lines 678-703: the financial_data handed to the advisor
ChatContext(token, balance, history) ==
    IF ~Truthy(token) THEN ChatDemoData
    ELSE IF ~TokenDecodes(token) THEN ChatDemoData
    ELSE IF AccountOf(token) = NoAccount THEN NoFinancialData
    ELSE FetchedOrDemo(get_user_financial_data(AccountOf(token), balance, history))

\* The whole handler; `message` is the message of the body, "" when it is
\* empty or missing.  advisor_called tells whether search_jobs_with_ai was
\* invoked, financial_data with what.
chat_with_ai(header, cookie, body, balance, history) ==
    IF ~IsObject(body)
    THEN [status |-> 200, advisor_called |-> FALSE,
          financial_data |-> NoFinancialData]
    ELSE IF body.message = ""
    THEN [status |-> 400, advisor_called |-> FALSE,
          financial_data |-> NoFinancialData]
    ELSE [status |-> 200, advisor_called |-> TRUE,
          financial_data |-> ChatContext(ChatToken(header, cookie),
                                         balance, history)]

\* ------------------------------------------------------------------------
\* GET /api/jobs (app.py, get_job_recommendations)
\* ------------------------------------------------------------------------

\* a posting of the Adzuna search; wellformed is FALSE for a posting that
\* the formatting loop raises on
Posting(title, salary_min, salary_max, wellformed) ==
    [ title |-> title, salary_min |-> salary_min, salary_max |-> salary_max,
      wellformed |-> wellformed ]

\* lines 813-821
SalaryDisplay(job) ==
    IF job.salary_max # 0 THEN "range"
    ELSE IF job.salary_min # 0 THEN "minimum"
    ELSE "Competitive"

\* lines 827-836
FormatJob(job) ==
    [title |-> job.title, salary |-> SalaryDisplay(job), type |-> "Part-time/Contract"]

\* lines 852-873
MockJobs ==
    << [title |-> "Senior Software Engineer (Remote)",
        salary |-> "$80,000 - $120,000", type |-> "Full-time"],
       [title |-> "Financial Analyst (Remote)",
        salary |-> "$70,000 - $95,000", type |-> "Full-time"] >>

\* MUTANT of JobsOrMock: no fallback
JobsOrMock_NoFallback(jobs) ==
    jobs

\* lines 851-873
JobsOrMock(jobs) ==
    IF jobs = <<>> THEN MockJobs ELSE jobs

\* the responses of the Adzuna search
AdzunaResults(postings) == [kind |-> "ok", results |-> postings]

AdzunaStatus == [kind |-> "status", results |-> <<>>]

AdzunaError == [kind |-> "error", results |-> <<>>]

\* The whole handler: the jobs of the response
get_job_recommendations(credentials, adzuna) ==
    LET formatted == [i \in 1..Len(adzuna.results) |-> FormatJob(adzuna.results[i])]
        jobs == IF ~credentials THEN <<>>
                ELSE IF adzuna.kind # "ok" THEN <<>>
                ELSE IF \E i \in 1..Len(adzuna.results) : ~adzuna.results[i].wellformed
                THEN <<>>
                ELSE formatted
    IN  [status |-> 200, jobs |-> JobsOrMock(jobs)]

\* ------------------------------------------------------------------------
\* Requests
\* ------------------------------------------------------------------------

CurrentAges == {30, 35, 65}

RetirementAges == {30, 65}

MonthlySavingsSet == {Num(0), Num(100 * MoneyUnit), Num(500 * MoneyUnit), NonNumeric}

ExpectedReturnSet == {Num(0 - 200), Num(0 - 100), Num(0 - 10), Num(0), Num(7), Absent}

CurrentSavingsSet ==
    {Absent, Num(0), Num(10000 * MoneyUnit), Num(0 - 10000 * MoneyUnit), NonNumeric}

AnnualIncomeSet == {Absent, Num(60000 * MoneyUnit)}

Scenario(ca, ra, ms, er, cs, cai) ==
    [ current_age |-> ca, retirement_age |-> ra, monthly_savings |-> ms,
      expected_return |-> er, current_savings |-> cs,
      current_annual_income |-> cai ]

Scenarios ==
    { Scenario(Num(ca), Num(ra), ms, er, cs, cai) :
        ca \in CurrentAges, ra \in RetirementAges, ms \in MonthlySavingsSet,
        er \in ExpectedReturnSet, cs \in CurrentSavingsSet,
        cai \in AnnualIncomeSet }

Auth(header, cookie) == [header |-> header, cookie |-> cookie]

AuthSet == { Auth(NoToken, NoToken), Auth(NoToken, "signed"),
             Auth("signed", NoToken), Auth(NoToken, "forged"),
             Auth(NoToken, "garbage"), Auth("garbage", "signed") }

\* savings, in thousands of dollars, whose 4% withdrawal is on, or just
\* below, a breakpoint of the adequacy ladder for an income of $60,000
AdequacySavingsSet == {599, 600, 899, 900, 1049, 1050, 1199, 1200}

AdequacyScenarios ==
    { Scenario(Num(30), Num(65), Num(0), Num(0), Num(k * 1000 * MoneyUnit),
               Num(60000 * MoneyUnit)) : k \in AdequacySavingsSet }

\* the requests of POST /api/scenario: <<tokens, body>>
ScenarioRequests ==
    (AuthSet \X (Scenarios \cup {NoBody}))
        \cup ({Auth(NoToken, "signed")} \X AdequacyScenarios)

\* balances of the balance service, in cents
BalanceSet == {0 - 50000, 0, 1240050, 40000000}

BalanceResponses ==
    { OkResponse(Num(b)) : b \in BalanceSet }
        \cup { OkResponse(NonNumeric), StatusResponse, ErrorResponse }

\* most full pages the history service holds
MaxFullPages == 1

\* the responses that end the pagination loop
LastResponses ==
    { OkResponse(ListBody(txs)) : txs \in TxLists }
        \cup { OkResponse(NotAList), StatusResponse, ErrorResponse }

\* the same with at most one record in the last page
ShortLastResponses ==
    { r \in LastResponses : Len(r.body.items) <= 1 }

\* no full page and any last response, or some full pages and a last
\* response of at most one record
Histories ==
    { History(0, Payment, last) : last \in LastResponses }
        \cup { History(n, Payment, last) :
                  n \in 1..MaxFullPages, last \in ShortLastResponses }

\* the moments (days) at which the classifier is called
NowSet == {RecentDay + 20, RecentDay + WindowDays, RecentDay + WindowDays + 1}

\* histories of max_pages - 1, max_pages and max_pages + 1 full pages
LongHistories ==
    { History(n, Payment, last) :
        n \in {max_pages - 1, max_pages, max_pages + 1},
        last \in { OkResponse(ListBody(<<Deposit>>)), OkResponse(ListBody(<<>>)),
                   OkResponse(NotAList), StatusResponse, ErrorResponse } }

\* the tokens of the URL parameter and of the cookie of a dashboard request
DashboardTokens == {NoToken, "signed", "forged", "garbage"}

DashboardHeaders ==
    { NoHeader, BasicHeader, BearerHeader(EmptyToken), BearerHeader("signed"),
      BearerHeader("garbage") }

\* the bank's answers to a dashboard or chat request
DashboardBalances ==
    { OkResponse(Num(1240050)), OkResponse(Num(50000)), OkResponse(NonNumeric),
      ErrorResponse }

DashboardHistories ==
    { History(0, Payment, OkResponse(ListBody(<<BigDeposit, Payment>>))),
      History(0, Payment, OkResponse(ListBody(<<ShortPayment, BadAmount>>))),
      History(0, Payment, StatusResponse),
      History(0, Payment, ErrorResponse) }

ChatHeaders == {NoHeader, BasicHeader, BearerHeader("signed"), BearerHeader("noacct")}

ChatCookies == {NoToken, "signed", "forged", "garbage", "noacct"}

ChatBodies == {NoBody, [message |-> ""], [message |-> "Can I retire at 60?"]}

PostingSet ==
    { Posting("Bookkeeper", 20000, 30000, TRUE), Posting("Tutor", 0, 0, TRUE),
      Posting("Driver", 15000, 0, FALSE) }

MaxPostings == 2

AdzunaResponses ==
    { AdzunaResults(ps) : ps \in UNION { [1..n -> PostingSet] : n \in 0..MaxPostings } }
        \cup { AdzunaStatus, AdzunaError }

\* savings rates, in 1/1000 percent
SavingsRateSet ==
    {0 - 50000, 0 - 1, 0, 3000, 5000, 12000, 17000, 20000, 100000}

NetWorthSet == {0 - 50000000, 0 - 1, 0, 100000, 1240050, 40000000}

HealthIncomeSet == {0 - 100000, 0, 450000}

SpendingAnalyses ==
    { NoSpendingData, SpendingAnalysis(TRUE, 0, 0),
      SpendingAnalysis(TRUE, 120000, 1), SpendingAnalysis(TRUE, 410000, 1),
      SpendingAnalysis(TRUE, 450000, 2), SpendingAnalysis(TRUE, 0 - 450000, 2) }

\* ------------------------------------------------------------------------
\* State
\* ------------------------------------------------------------------------

VARIABLES
    request,    \* the request being served, [op |-> "none"] when idle
    response,   \* its response
    target,     \* the goal amount when the scenario was built from the goal
                \* fields of a dashboard, else 0
    threads,    \* per request thread: where it is in a method of the shared
                \* FinancialAnalyzer, the call it made and the value returned
    locals      \* per invocation: the local variables of the method

vars == <<request, response, target, threads, locals>>

Idle == [op |-> "none"]

NoResponse == [status |-> 0]

\* request threads of the server
MaxThreads == 2

Threads == 1..MaxThreads

NoCall == [op |-> "none"]

NoResult == [none |-> TRUE]

ThreadIdle == [pc |-> "idle", call |-> NoCall, result |-> NoResult]

\* the local variables of calculate_income_expenses (transactions to
\* total_expenses) and of calculate_retirement_projections (scenario_data)
EmptyFrame ==
    [ transactions        |-> <<>>,
      account_id          |-> NoAccount,
      now                 |-> 0,
      i                   |-> 0,
      recent_transactions |-> <<>>,
      total_income        |-> 0,
      total_expenses      |-> 0,
      scenario_data       |-> NoBody ]

Init ==
    /\ request = Idle
    /\ response = NoResponse
    /\ target = 0
    /\ threads = [t \in Threads |-> ThreadIdle]
    /\ locals = [t \in Threads |-> EmptyFrame]

\* POST /api/scenario with any body
PostScenario ==
    /\ request = Idle
    /\ \E rq \in ScenarioRequests :
          /\ request' = [op |-> "scenario", auth |-> rq[1], body |-> rq[2]]
          /\ response' = retirement_scenario(rq[1], rq[2])
    /\ target' = 0
    /\ UNCHANGED <<threads, locals>>

\* the dashboard (or the chat) fetches the user's financial data
FetchFinancialData ==
    /\ request = Idle
    /\ \E balance \in BalanceResponses, history \in Histories \cup LongHistories :
          /\ request' = [op |-> "financial_data", account_id |-> UserAccount,
                         balance |-> balance, history |-> history]
          /\ response' = get_user_financial_data(UserAccount, balance, history)
    /\ target' = 0
    /\ UNCHANGED <<threads, locals>>

\* The user posts the scenario that the goal fields of the dashboard describe:
\* the same balance, age, years and rate, and the additional monthly savings
\* as the contribution.
PostGoalScenario ==
    /\ request.op = "financial_data"
    /\ response.outcome = "returned"
    /\ "retirement_goal" \in DOMAIN response.data
    /\ LET fd == response.data
           body == Scenario(Num(fd.user_age),
                            Num(fd.user_age + fd.years_to_retirement),
                            Num(fd.additional_monthly_savings_needed),
                            Num(5),
                            Num(fd.current_balance),
                            Absent)
           auth == Auth(NoToken, "signed")
       IN  /\ request' = [op |-> "scenario", auth |-> auth, body |-> body]
           /\ response' = retirement_scenario(auth, body)
           /\ target' = fd.retirement_goal
    /\ UNCHANGED <<threads, locals>>

\* the demo dashboard classifies the transactions it fetched
ClassifyTransactions ==
    /\ request = Idle
    /\ \E txs \in TxLists, now \in NowSet :
          /\ request' = [op |-> "classify", transactions |-> txs,
                         account_id |-> UserAccount, now |-> now]
          /\ response' = calculate_income_expenses(txs, UserAccount, now)
    /\ target' = 0
    /\ UNCHANGED <<threads, locals>>

\* the demo dashboard is requested again at a later moment and the history
\* service returns the same list
ClassifyAgain ==
    /\ request.op = "classify"
    /\ \E now \in NowSet :
          /\ now > request.now
          /\ request' = [request EXCEPT !.now = now]
          /\ response' = calculate_income_expenses(request.transactions,
                                                  request.account_id, now)
    /\ target' = 0
    /\ UNCHANGED <<threads, locals>>

\* GET /
GetDashboard ==
    /\ request = Idle
    /\ \E url_token \in DashboardTokens, header \in DashboardHeaders,
          cookie \in DashboardTokens, key_present \in BOOLEAN,
          balance \in DashboardBalances, history \in DashboardHistories,
          now \in NowSet :
          /\ request' = [op |-> "dashboard", url_token |-> url_token,
                         header |-> header, cookie |-> cookie,
                         key_present |-> key_present, balance |-> balance,
                         history |-> history, now |-> now]
          /\ response' = dashboard(url_token, header, cookie, key_present,
                                   balance, history, now)
    /\ target' = 0
    /\ UNCHANGED <<threads, locals>>

\* POST /api/chat
PostChat ==
    /\ request = Idle
    /\ \E header \in ChatHeaders, cookie \in ChatCookies, body \in ChatBodies,
          balance \in DashboardBalances, history \in DashboardHistories :
          /\ request' = [op |-> "chat", header |-> header, cookie |-> cookie,
                         body |-> body, balance |-> balance, history |-> history]
          /\ response' = chat_with_ai(header, cookie, body, balance, history)
    /\ target' = 0
    /\ UNCHANGED <<threads, locals>>

\* GET /api/jobs
GetJobs ==
    /\ request = Idle
    /\ \E credentials \in BOOLEAN, adzuna \in AdzunaResponses :
          /\ request' = [op |-> "jobs", credentials |-> credentials,
                         adzuna |-> adzuna]
          /\ response' = get_job_recommendations(credentials, adzuna)
    /\ target' = 0
    /\ UNCHANGED <<threads, locals>>

\* the analyzer scores one set of figures
CalculateHealthScore ==
    /\ request = Idle
    /\ \E savings_rate \in SavingsRateSet, net_worth \in NetWorthSet,
          monthly_income \in HealthIncomeSet,
          spending_analysis \in SpendingAnalyses :
          /\ request' = [op |-> "health_score", savings_rate |-> savings_rate,
                         net_worth |-> net_worth,
                         monthly_income |-> monthly_income,
                         spending_analysis |-> spending_analysis]
          /\ response' = [score |-> calculate_health_score(savings_rate,
                              net_worth, monthly_income, spending_analysis)]
    /\ target' = 0
    /\ UNCHANGED <<threads, locals>>

\* the response is sent; the service keeps nothing of the request
Done ==
    /\ request # Idle
    /\ request' = Idle
    /\ response' = NoResponse
    /\ target' = 0
    /\ UNCHANGED <<threads, locals>>

Next ==
    \/ PostScenario
    \/ FetchFinancialData
    \/ PostGoalScenario
    \/ ClassifyTransactions
    \/ ClassifyAgain
    \/ GetDashboard
    \/ PostChat
    \/ GetJobs
    \/ CalculateHealthScore
    \/ Done

Spec == Init /\ [][Next]_vars

\* ------------------------------------------------------------------------
\* Request threads calling the module-level FinancialAnalyzer (app.py 61-64)
\* ------------------------------------------------------------------------

\* MUTANT of LocalsOf: the working variables are attributes of the shared
\* instance, one set for all threads
LocalsOf_OnInstance(t) == 1

\* where the working variables of thread t's invocation live: they are local
\* variables of the method, one frame per invocation
LocalsOf(t) == t

ClassifyCall(txs, now) ==
    [op |-> "calculate_income_expenses", transactions |-> txs,
     account_id |-> UserAccount, now |-> now]

ProjectionCall(s) ==
    [op |-> "calculate_retirement_projections", scenario_data |-> s]

\* the calls the request threads make
ConcurrentCalls ==
    { ClassifyCall(txs, RecentDay + 20) :
        txs \in { <<>>, <<Deposit>>, <<Payment, BigDeposit>>,
                  <<Deposit, BadAmount>>, <<OldDeposit, TransferIn>> } }
    \cup
    { ProjectionCall(s) :
        s \in { Scenario(Num(30), Num(65), Num(500 * MoneyUnit), Num(7), Num(0), Absent),
                Scenario(Num(35), Num(65), Num(100 * MoneyUnit), Num(0),
                         Num(10000 * MoneyUnit), Absent),
                Scenario(Num(30), Num(65), NonNumeric, Num(7), Num(0), Absent) } }

\* the thread returns `value` to its caller; the frame is gone
Returns(t, value) ==
    /\ threads' = [threads EXCEPT ![t].pc = "returned", ![t].result = value]
    /\ locals' = [locals EXCEPT ![LocalsOf(t)] = EmptyFrame]

ZeroIncomeExpenses == [monthly_income |-> 0, monthly_expenses |-> 0]

\* a thread enters calculate_income_expenses (lines 75-83)
CallClassifier ==
    \E t \in Threads, call \in ConcurrentCalls :
        /\ threads[t].pc = "idle"
        /\ call.op = "calculate_income_expenses"
        /\ threads' = [threads EXCEPT ![t] = [pc |-> "filter", call |-> call,
                                              result |-> NoResult]]
        /\ locals' = [locals EXCEPT ![LocalsOf(t)] =
                         [EmptyFrame EXCEPT !.transactions = call.transactions,
                                            !.account_id = call.account_id,
                                            !.now = call.now,
                                            !.i = 1]]
        /\ UNCHANGED <<request, response, target>>

\* one iteration of the first loop (lines 85-93), or its end (lines 95-99)
FilterStep ==
    \E t \in Threads :
        /\ threads[t].pc = "filter"
        /\ LET f == locals[LocalsOf(t)]
           IN  IF f.transactions = <<>> THEN Returns(t, ZeroIncomeExpenses)
               ELSE IF f.i > Len(f.transactions)
               THEN IF f.recent_transactions = <<>>
                    THEN Returns(t, ZeroIncomeExpenses)
                    ELSE /\ threads' = [threads EXCEPT ![t].pc = "sum"]
                         /\ locals' = [locals EXCEPT ![LocalsOf(t)].i = 1]
               ELSE IF TimestampEscapes(f.transactions[f.i])
               THEN Returns(t, ZeroIncomeExpenses)
               ELSE /\ locals' = [locals EXCEPT
                         ![LocalsOf(t)].recent_transactions =
                             IF Retained(f.transactions[f.i], f.now)
                             THEN Append(@, f.transactions[f.i]) ELSE @,
                         ![LocalsOf(t)].i = @ + 1]
                    /\ UNCHANGED threads
        /\ UNCHANGED <<request, response, target>>

\* one iteration of the second loop (lines 101-111), or the averages and the
\* return (lines 113-118)
SumStep ==
    \E t \in Threads :
        /\ threads[t].pc = "sum"
        /\ LET f == locals[LocalsOf(t)]
               tenths == Max(Min(30, Len(f.recent_transactions)), 10)
           IN  IF f.i > Len(f.recent_transactions)
               THEN Returns(t, [monthly_income   |-> MulDiv(f.total_income, 10, tenths),
                                monthly_expenses |-> MulDiv(f.total_expenses, 10, tenths)])
               ELSE LET transaction == f.recent_transactions[f.i]
                    IN  IF AmountRaises(transaction)
                        THEN Returns(t, ZeroIncomeExpenses)
                        ELSE /\ locals' = [locals EXCEPT
                                  ![LocalsOf(t)].total_income =
                                      IF transaction.toAccountNum = f.account_id
                                      THEN @ + AmountOf(transaction) ELSE @,
                                  ![LocalsOf(t)].total_expenses =
                                      IF /\ transaction.toAccountNum # f.account_id
                                         /\ transaction.fromAccountNum = f.account_id
                                      THEN @ + AmountOf(transaction) ELSE @,
                                  ![LocalsOf(t)].i = @ + 1]
                             /\ UNCHANGED threads
        /\ UNCHANGED <<request, response, target>>

\* a thread enters calculate_retirement_projections (line 124)
CallProjections ==
    \E t \in Threads, call \in ConcurrentCalls :
        /\ threads[t].pc = "idle"
        /\ call.op = "calculate_retirement_projections"
        /\ threads' = [threads EXCEPT ![t] = [pc |-> "project", call |-> call,
                                              result |-> NoResult]]
        /\ locals' = [locals EXCEPT ![LocalsOf(t)].scenario_data = call.scenario_data]
        /\ UNCHANGED <<request, response, target>>

\* the body of calculate_retirement_projections on its local scenario_data
ProjectStep ==
    \E t \in Threads :
        /\ threads[t].pc = "project"
        /\ LET f == locals[LocalsOf(t)]
           IN  IF ~IsObject(f.scenario_data) \/ ProjectionRaises(f.scenario_data)
               THEN Returns(t, get_default_projections)
               ELSE Returns(t, ComputeProjections(f.scenario_data))
        /\ UNCHANGED <<request, response, target>>

\* the caller has used the returned value; the thread serves another request
ThreadDone ==
    \E t \in Threads :
        /\ threads[t].pc = "returned"
        /\ threads' = [threads EXCEPT ![t] = ThreadIdle]
        /\ UNCHANGED <<request, response, target, locals>>

NextConcurrent ==
    \/ CallClassifier
    \/ FilterStep
    \/ SumStep
    \/ CallProjections
    \/ ProjectStep
    \/ ThreadDone

SpecConcurrent == Init /\ [][NextConcurrent]_vars

\* ------------------------------------------------------------------------
\* Properties
\* ------------------------------------------------------------------------

\* the scenario request passed authentication and field validation and the
\* calculator ran on a body whose fields are all numbers
ScenarioComputed ==
    /\ request.op = "scenario"
    /\ response.status = 200
    /\ ~ProjectionRaises(request.body)

\* the fields of the body as numbers (when ScenarioComputed)
BodyVal(k) == ScenarioFields(request.body)[k].val

\* C1: forward projection of a scenario with retirement_age <= current_age
\* fails with an error; it never returns projection numbers.
C1_InvalidScenarioRejected ==
    ( /\ request.op = "scenario"
      /\ IsObject(request.body)
      /\ IsNumber(request.body.current_age)
      /\ IsNumber(request.body.retirement_age)
      /\ request.body.retirement_age.val <= request.body.current_age.val )
    => ( response.status # 200 /\ response.projections = NoProjections )

\* C2: when the computation inside calculate_retirement_projections raises,
\* the caller observes an error, never a dictionary of zeros reported as a
\* success.
C2_ComputationErrorSurfaces ==
    ( /\ request.op = "scenario"
      /\ TokenDecodes(SelectToken(request.auth))
      /\ IsObject(request.body)
      /\ \A k \in required_fields : ~IsAbsent(request.body[k])
      /\ ProjectionRaises(request.body) )
    => ( response.status # 200 /\ response.projections # get_default_projections )

\* C3: whenever the monthly rate is 0, the future value of the monthly
\* contributions is monthly_savings * months_to_retirement exactly: the
\* projection total is the current savings (grown at rate 0) plus that product.
C3_ZeroRateDegeneration ==
    ( /\ request.op = "scenario"
      /\ TokenDecodes(SelectToken(request.auth))
      /\ IsObject(request.body)
      /\ \A k \in required_fields : ~IsAbsent(request.body[k])
      /\ \A k \in DOMAIN ScenarioFields(request.body) :
            IsNumber(ScenarioFields(request.body)[k])
      /\ IsAbsent(request.body.current_annual_income)
            \/ IsNumber(request.body.current_annual_income)
      /\ MulDiv(MulDiv(BodyVal("expected_return"), FP, 100), 1, 12) = 0 )
    => ( /\ response.status = 200
         /\ response.projections.total_savings
              = BodyVal("current_savings")
                + BodyVal("monthly_savings")
                  * ((BodyVal("retirement_age") - BodyVal("current_age")) * 12) )

\* C3 witness: a zero-rate scenario with a positive contribution over a
\* positive number of months was projected
C3_Witness ==
    /\ ScenarioComputed
    /\ BodyVal("expected_return") = 0
    /\ BodyVal("monthly_savings") = 500 * MoneyUnit
    /\ BodyVal("retirement_age") - BodyVal("current_age") = 35
    /\ response.projections.total_savings
         = BodyVal("current_savings") + 500 * MoneyUnit * 420

\* C4: the investment_growth returned by the forward projection is never
\* negative.
C4_InvestmentGrowthNonNegative ==
    ScenarioComputed => response.projections.investment_growth >= 0

\* the goal fields are in the returned financial data
GoalComputed ==
    /\ request.op = "financial_data"
    /\ response.outcome = "returned"
    /\ "savings_gap" \in DOMAIN response.data

\* C5: in every result of the goal-gap calculation,
\* additional_monthly_savings_needed >= 0 and savings_gap >= 0.
C5_GoalGapNonNegative ==
    GoalComputed =>
        /\ response.data.additional_monthly_savings_needed >= 0
        /\ response.data.savings_gap >= 0

\* C5 witness: the user already saves more than is needed (income - expenses
\* exceeds the additional savings), and the gap is reported as 0
C5_Witness ==
    /\ GoalComputed
    /\ response.data.additional_monthly_savings_needed > 0
    /\ response.data.monthly_income - response.data.monthly_expenses
         > response.data.additional_monthly_savings_needed
    /\ response.data.savings_gap = 0

\* C5 witness of the other case: the grown balance exceeds the target
C5_WitnessBalanceAboveTarget ==
    /\ GoalComputed
    /\ FMul(response.data.current_balance, Pow(FP + cagr, response.data.years_to_retirement))
         > retirement_goal
    /\ response.data.additional_monthly_savings_needed = 0

\* what a difference of half a cent in the monthly payment amounts to after
\* 360 months of compounding, the resolution of money being one cent
RoundTripTolerance == 5 * MoneyUnit

\* C6 (as claimed): feeding additional_monthly_savings_needed back into the
\* forward projection with matching parameters gives total savings equal to
\* the target within rounding tolerance.
C6_RoundTrip ==
    target # 0 =>
        /\ response.status = 200
        /\ Abs(response.projections.total_savings - target) <= RoundTripTolerance

\* C6 (amended): the round trip reaches the target provided the current
\* balance grown over the years does not already exceed the target.
C6_RoundTripBelowTarget ==
    ( /\ target # 0
      /\ FMul(BodyVal("current_savings"),
              Pow(FP + cagr, BodyVal("retirement_age") - BodyVal("current_age")))
           <= target )
    => ( /\ response.status = 200
         /\ Abs(response.projections.total_savings - target) <= RoundTripTolerance )

\* C6 witness: a round trip with a positive contribution that hit the target
C6_Witness ==
    /\ target # 0
    /\ ScenarioComputed
    /\ BodyVal("monthly_savings") > 0
    /\ BodyVal("current_savings") > 0
    /\ Abs(response.projections.total_savings - target) <= RoundTripTolerance

\* the request's scenario with another monthly contribution
WithMonthlySavings(body, ms) == [body EXCEPT !.monthly_savings = Num(ms)]

\* C7: of two scenarios that differ only in monthly_savings, the one with the
\* larger monthly_savings never has the smaller total_savings.
C7_MonotonicInContribution ==
    ScenarioComputed =>
        \A ms \in {0, 100 * MoneyUnit, 500 * MoneyUnit} :
            ms >= BodyVal("monthly_savings") =>
                calculate_retirement_projections(
                    WithMonthlySavings(request.body, ms)).total_savings
                  >= response.projections.total_savings

\* C7 restricted to the scenarios the data model allows (retirement_age >
\* current_age): there the projection is monotonic in the contribution
C7_MonotonicValidScenarios ==
    ( ScenarioComputed /\ BodyVal("retirement_age") > BodyVal("current_age") ) =>
        \A ms \in {0, 100 * MoneyUnit, 500 * MoneyUnit} :
            ms >= BodyVal("monthly_savings") =>
                calculate_retirement_projections(
                    WithMonthlySavings(request.body, ms)).total_savings
                  >= response.projections.total_savings

\* C8: given an empty transaction list, the transaction classifier returns
\* the non-zero fallback constants, never (0, 0).
C8_EmptyListFallback ==
    /\ ( request.op = "classify" /\ request.transactions = <<>> )
       => ( response.monthly_income > 0 /\ response.monthly_expenses > 0 )
    /\ ( GoalComputed /\ response.data.transactions = <<>> )
       => ( /\ response.data.monthly_income = default_monthly_income
            /\ response.data.monthly_expenses = default_monthly_expenses )

\* a timestamp that is a valid ISO-8601 date inside the 90-day window
ValidInWindow(t, now) ==
    /\ t.timestamp.kind \in {"naive", "aware"}
    /\ t.timestamp.day >= now - WindowDays

\* C9: in calculate_income_expenses a record with an absent or malformed
\* timestamp is skipped on its own and every record with a valid timestamp
\* inside the window is still counted: the result is the result for the
\* valid in-window records alone.
C9_MalformedTimestampSkipped ==
    ( /\ request.op = "classify"
      /\ \A i \in 1..Len(request.transactions) :
            ~AmountRaises(request.transactions[i]) )
    => LET valid == SelectSeq(request.transactions,
                              LAMBDA t : ValidInWindow(t, request.now))
           Income(t) == IF t.toAccountNum = request.account_id
                        THEN AmountOf(t) ELSE 0
       IN  response.monthly_income
             = MulDiv(SumOver([i \in 1..Len(valid) |-> Income(valid[i])]), 10, Max(Min(30, Len(valid)), 10))

\* a record the classifier is to skip: its amount does not parse, or it has
\* no account fields
Unusable(t) ==
    \/ AmountRaises(t)
    \/ (t.toAccountNum = NoAccount /\ t.fromAccountNum = NoAccount)

\* C10: a transaction whose amount cannot be parsed, or whose account fields
\* are missing, is skipped individually: the totals are those of the other
\* records.
C10_UnusableRecordSkipped ==
    /\ ( /\ request.op = "classify"
         /\ \A i \in 1..Len(request.transactions) :
               ~TimestampEscapes(request.transactions[i]) )
       => LET usable == SelectSeq(request.transactions, LAMBDA t : ~Unusable(t))
              recent == SelectSeq(usable, LAMBDA t : Retained(t, request.now))
              Income(t) == IF t.toAccountNum = request.account_id
                           THEN AmountOf(t) ELSE 0
          IN  response.monthly_income
                = MulDiv(SumOver([i \in 1..Len(recent) |-> Income(recent[i])]), 10, Max(Min(30, Len(recent)), 10))
    /\ GoalComputed
       => LET usable == SelectSeq(response.data.transactions, LAMBDA t : ~Unusable(t))
              est == EstimateMonthly(usable, request.account_id)
          IN  usable # <<>> =>
                 /\ response.data.monthly_income = est.monthly_income
                 /\ response.data.monthly_expenses = est.monthly_expenses

\* the rule of the claim: what a record adds to total income
IncomeOf(t, account_id) ==
    IF t.toAccountNum = account_id THEN AmountOf(t) ELSE 0

\* the rule of the claim: what a record adds to total expenses
ExpenseOf(t, account_id) ==
    IF t.fromAccountNum = account_id /\ t.toAccountNum # account_id
    THEN AmountOf(t) ELSE 0

TotalIncome(txs, account_id) ==
    SumOver([i \in 1..Len(txs) |-> IncomeOf(txs[i], account_id)])

TotalExpenses(txs, account_id) ==
    SumOver([i \in 1..Len(txs) |-> ExpenseOf(txs[i], account_id)])

\* calculate_income_expenses ran its second loop to the end on a non-empty
\* list of retained records
ClassifierComputed ==
    /\ request.op = "classify"
    /\ ~IncomeExpensesRaises(request.transactions, request.account_id, request.now)
    /\ \E i \in 1..Len(request.transactions) :
          Retained(request.transactions[i], request.now)

\* the retained records of the classify request
RetainedOfRequest ==
    SelectSeq(request.transactions, LAMBDA t : Retained(t, request.now))

\* get_user_financial_data classified a list in which every amount parses
DashboardClassified ==
    /\ GoalComputed
    /\ \A i \in 1..Len(response.data.transactions) :
          ~AmountRaises(response.data.transactions[i])

\* C11: every retained record adds its amount to total income exactly when
\* its destination is the user's account, and to total expenses exactly when
\* its source is the user's account and the destination differs; the monthly
\* figures of both classifiers are those of these two totals.
C11_ClassificationRule ==
    /\ ClassifierComputed
       => LET recent == RetainedOfRequest
              tenths == Max(Min(30, Len(recent)), 10)
          IN  /\ response.monthly_income
                   = MulDiv(TotalIncome(recent, request.account_id), 10, tenths)
              /\ response.monthly_expenses
                   = MulDiv(TotalExpenses(recent, request.account_id), 10, tenths)
    /\ DashboardClassified
       => LET txs == response.data.transactions
              income == TotalIncome(txs, request.account_id)
              expenses == TotalExpenses(txs, request.account_id)
          IN  /\ income > 0
                   => response.data.monthly_income = MulDiv(income, 1, months_of_data)
              /\ expenses > 0
                   => response.data.monthly_expenses = MulDiv(expenses, 1, months_of_data)

\* C12: the monthly income and expenses of the classifier are the window
\* totals divided by 3, whatever the number of retained transactions.
C12_DividedByThree ==
    /\ ClassifierComputed
       => LET recent == RetainedOfRequest
          IN  /\ response.monthly_income
                   = MulDiv(TotalIncome(recent, request.account_id), 1, 3)
              /\ response.monthly_expenses
                   = MulDiv(TotalExpenses(recent, request.account_id), 1, 3)
    /\ DashboardClassified
       => LET txs == response.data.transactions
              deposits ==
                  SumOver([i \in 1..Len(txs) |-> DepositOf(txs[i], request.account_id)])
              payments ==
                  SumOver([i \in 1..Len(txs) |-> PaymentOf(txs[i], request.account_id)])
          IN  /\ deposits > 0
                   => response.data.monthly_income = MulDiv(deposits, 1, 3)
              /\ payments > 0
                   => response.data.monthly_expenses = MulDiv(payments, 1, 3)

\* C13: the financial data returned by get_user_financial_data has
\* monthly_income > 0 and monthly_expenses > 0 in every outcome of the balance
\* and history requests.
C13_NeverZeroIncome ==
    ( request.op = "financial_data" /\ response.outcome = "returned" )
    => ( /\ response.data.monthly_income > 0
         /\ response.data.monthly_expenses > 0 )

\* C14: the adequacy assessment is the threshold ladder on the replacement
\* ratio with the breakpoints 80, 70, 60, 40, each inclusive, and depends on
\* the ratio only (the ratio is the one the calculator computes, before it is
\* rounded to one decimal for the response).
C14_AdequacyLadder ==
    ScenarioComputed =>
        LET ratio == ProjectionValues(request.body).replacement_ratio
        IN  response.projections.adequacy_assessment
              = CASE ratio >= 80 * 1000 -> "Excellent"
                  [] ratio < 80 * 1000 /\ ratio >= 70 * 1000 -> "Good"
                  [] ratio < 70 * 1000 /\ ratio >= 60 * 1000 -> "Fair"
                  [] ratio < 60 * 1000 /\ ratio >= 40 * 1000 -> "Below target"
                  [] ratio < 40 * 1000 -> "Critical"

\* C14 witness: a scenario whose ratio is exactly 70 was assessed "Good"
C14_Witness ==
    /\ ScenarioComputed
    /\ ProjectionValues(request.body).replacement_ratio = 70 * 1000
    /\ response.projections.adequacy_assessment = "Good"

\* the scenario of C15 was projected
ReferenceScenarioComputed ==
    /\ ScenarioComputed
    /\ BodyVal("current_age") = 30
    /\ BodyVal("retirement_age") = 65
    /\ BodyVal("monthly_savings") = 500 * MoneyUnit
    /\ BodyVal("expected_return") = 7
    /\ BodyVal("current_savings") = 0

\* C15 (as claimed): the projection of current_age 30, retirement_age 65,
\* monthly_savings 500, expected_return 7%, current_savings 0 returns a
\* total_savings between $958,000 and $962,000.
C15_TotalSavingsRange ==
    ReferenceScenarioComputed =>
        /\ response.projections.total_savings >= 958000 * MoneyUnit
        /\ response.projections.total_savings <= 962000 * MoneyUnit

\* C15 (amended): the projection of that scenario returns a total_savings
\* between $899,000 and $902,000, the value of the ordinary annuity of 420
\* payments of $500 at 7%/12 a month.
C15_TotalSavingsOrdinaryAnnuity ==
    ReferenceScenarioComputed =>
        /\ response.projections.total_savings >= 899000 * MoneyUnit
        /\ response.projections.total_savings <= 902000 * MoneyUnit

\* C15 witness: the scenario was projected, with 420 contributions of $500
C15_Witness ==
    /\ ReferenceScenarioComputed
    /\ response.projections.total_contributions = 420 * 500 * MoneyUnit
    /\ response.projections.investment_growth > 0

\* the goal fields were computed from a balance of 0, with the target of
\* $1,500,000, 30 years and the growth rate of 5%
ReferenceGoalComputed ==
    /\ GoalComputed
    /\ response.data.current_balance = 0
    /\ response.data.retirement_goal = 1500000 * MoneyUnit
    /\ response.data.years_to_retirement = 30
    /\ cagr = MulDiv(5, FP, 100)

\* C16: the goal-gap calculation with current_balance 0, target 1,500,000,
\* 30 years remaining and 5% annual growth yields an
\* additional_monthly_savings_needed between $1,790 and $1,810.
C16_GoalGapValue ==
    ReferenceGoalComputed =>
        /\ response.data.additional_monthly_savings_needed >= 1790 * MoneyUnit
        /\ response.data.additional_monthly_savings_needed <= 1810 * MoneyUnit

\* C16 witness: the balance service answered 0 and the goal fields were
\* computed
C16_Witness ==
    /\ ReferenceGoalComputed
    /\ request.balance = OkResponse(Num(0))
    /\ response.data.additional_monthly_savings_needed > 0

\* C17 (as claimed): for every principal, every annual rate >= 0 and every
\* year count >= 0, principal * (1 + rate) ** years >= principal, in the
\* current-savings term of the projection and in the current-balance term of
\* the goal-gap calculation.
C17_LumpSumAtLeastPrincipal ==
    /\ ( /\ ScenarioComputed
         /\ BodyVal("expected_return") >= 0
         /\ BodyVal("retirement_age") >= BodyVal("current_age") )
       => /\ future_value_current(BodyVal("current_savings"),
                                  MulDiv(BodyVal("expected_return"), FP, 100),
                                  BodyVal("retirement_age") - BodyVal("current_age"))
               >= BodyVal("current_savings")
          /\ BodyVal("monthly_savings") = 0
               => response.projections.total_savings >= BodyVal("current_savings")
    /\ GoalComputed
       => future_value_current(response.data.current_balance, cagr,
                               response.data.years_to_retirement)
            >= response.data.current_balance

\* C17 (amended): the same for every principal >= 0.
C17_LumpSumAtLeastNonNegativePrincipal ==
    /\ ( /\ ScenarioComputed
         /\ BodyVal("expected_return") >= 0
         /\ BodyVal("retirement_age") >= BodyVal("current_age")
         /\ BodyVal("current_savings") >= 0 )
       => /\ future_value_current(BodyVal("current_savings"),
                                  MulDiv(BodyVal("expected_return"), FP, 100),
                                  BodyVal("retirement_age") - BodyVal("current_age"))
               >= BodyVal("current_savings")
          /\ BodyVal("monthly_savings") = 0
               => response.projections.total_savings >= BodyVal("current_savings")
    /\ ( GoalComputed /\ response.data.current_balance >= 0 )
       => future_value_current(response.data.current_balance, cagr,
                               response.data.years_to_retirement)
            >= response.data.current_balance

\* C17 witness: savings of $10,000 were projected alone over 35 years at 7%
\* and came out larger
C17_Witness ==
    /\ ScenarioComputed
    /\ BodyVal("current_savings") = 10000 * MoneyUnit
    /\ BodyVal("monthly_savings") = 0
    /\ BodyVal("expected_return") = 7
    /\ BodyVal("retirement_age") - BodyVal("current_age") = 35
    /\ response.projections.total_savings > 10000 * MoneyUnit

\* C18: for every scenario with current_age >= 0, retirement_age >
\* current_age, monthly_savings >= 0, current_savings >= 0 and any expected
\* return, total_savings, monthly_income, annual_income and
\* total_contributions are non-negative.
C18_MonetaryOutputsNonNegative ==
    ( /\ ScenarioComputed
      /\ BodyVal("current_age") >= 0
      /\ BodyVal("retirement_age") > BodyVal("current_age")
      /\ BodyVal("monthly_savings") >= 0
      /\ BodyVal("current_savings") >= 0 )
    => ( /\ response.projections.total_savings >= 0
         /\ response.projections.monthly_income >= 0
         /\ response.projections.annual_income >= 0
         /\ response.projections.total_contributions >= 0 )

\* C18 for expected returns of -100% or more: there the outputs are
\* non-negative
C18_NonNegativeAboveTotalLoss ==
    ( /\ ScenarioComputed
      /\ BodyVal("current_age") >= 0
      /\ BodyVal("retirement_age") > BodyVal("current_age")
      /\ BodyVal("monthly_savings") >= 0
      /\ BodyVal("current_savings") >= 0
      /\ BodyVal("expected_return") >= 0 - 100 )
    => ( /\ response.projections.total_savings >= 0
         /\ response.projections.monthly_income >= 0
         /\ response.projections.annual_income >= 0
         /\ response.projections.total_contributions >= 0 )

\* C19: two calls of calculate_income_expenses with the same transaction list
\* and the same account id return the same (monthly_income,
\* monthly_expenses), whatever the moment of each call.
C19_ClassifierPure ==
    [][ ( /\ request.op = "classify"
          /\ request'.op = "classify"
          /\ request'.transactions = request.transactions
          /\ request'.account_id = request.account_id )
        => response' = response ]_vars

\* what the call returns when it runs alone
RunAlone(call) ==
    IF call.op = "calculate_income_expenses"
    THEN calculate_income_expenses(call.transactions, call.account_id, call.now)
    ELSE calculate_retirement_projections(call.scenario_data)

\* C20: concurrent invocations of the calculators on the shared
\* FinancialAnalyzer instance do not interfere: in every interleaving each
\* invocation returns the value it returns when run alone.
C20_NoInterference ==
    \A t \in Threads :
        threads[t].pc = "returned" => threads[t].result = RunAlone(threads[t].call)

\* C20 witness: an invocation returned its own value while another
\* invocation, of another call, was in the middle of its loop
C20_Witness ==
    \E t, u \in Threads :
        /\ t # u
        /\ threads[t].pc = "returned"
        /\ threads[t].call.op = "calculate_income_expenses"
        /\ threads[t].result.monthly_income > 0
        /\ threads[u].pc = "sum"
        /\ locals[LocalsOf(u)].i > 1
        /\ threads[u].call # threads[t].call

\* C21: in get_user_financial_data the monthly income and expenses derived
\* from the fetched transactions are computed before the goal-gap
\* calculation: the savings_gap of the result is the one computed from the
\* monthly_income and monthly_expenses stored in that same result.
C21_GapFromStoredIncome ==
    GoalComputed =>
        LET fd == response.data
            current_monthly_savings == fd.monthly_income - fd.monthly_expenses
            gap == fd.additional_monthly_savings_needed - current_monthly_savings
        IN  /\ fd.savings_gap = IF gap > 0 THEN gap ELSE 0
            /\ fd.monthly_income
                 = EstimateMonthly(fd.transactions, request.account_id).monthly_income
            /\ fd.monthly_expenses
                 = EstimateMonthly(fd.transactions, request.account_id).monthly_expenses

\* C21 witness: income and expenses came from the transactions (neither is a
\* default) and cover a part of the savings needed
C21_Witness ==
    /\ GoalComputed
    /\ response.data.monthly_income # default_monthly_income
    /\ response.data.monthly_expenses # default_monthly_expenses
    /\ response.data.monthly_income > response.data.monthly_expenses
    /\ response.data.savings_gap > 0
    /\ response.data.savings_gap < response.data.additional_monthly_savings_needed

\* the body of the scenario request lacks one of the required fields
LacksRequiredField(body) ==
    ~IsObject(body) \/ \E k \in required_fields : IsAbsent(body[k])

\* C25: POST /api/scenario answers 401 to a request with no token or an
\* undecodable token and 400 to a body lacking one of current_age,
\* retirement_age, monthly_savings, expected_return; in none of these cases
\* is calculate_retirement_projections or the AI advisor invoked.
C25_ChecksBeforeComputation ==
    request.op = "scenario" =>
        /\ ~TokenDecodes(SelectToken(request.auth))
             => ( /\ response.status = 401
                  /\ response.projections = NoProjections
                  /\ ~response.ai_invoked )
        /\ ( TokenDecodes(SelectToken(request.auth)) /\ LacksRequiredField(request.body) )
             => ( /\ response.status = 400
                  /\ response.projections = NoProjections
                  /\ ~response.ai_invoked )

\* C25 without the status of a request that has no JSON object as its body:
\* nothing is computed unless both checks passed, and a JSON object lacking a
\* required field is answered 400
C25_NoComputationBeforeChecks ==
    request.op = "scenario" =>
        /\ ~TokenDecodes(SelectToken(request.auth))
             => ( /\ response.status = 401
                  /\ response.projections = NoProjections
                  /\ ~response.ai_invoked )
        /\ ( TokenDecodes(SelectToken(request.auth)) /\ LacksRequiredField(request.body) )
             => ( /\ response.status = IF IsObject(request.body) THEN 400 ELSE 500
                  /\ response.projections = NoProjections
                  /\ ~response.ai_invoked )

\* the dashboard handler has answered
DashboardAnswered == request.op = "dashboard"

\* C22: the dashboard fetches an account's financial data and renders the
\* authenticated dashboard only for a token whose RS256 signature verifies
\* against the configured public key; a token whose signature does not
\* verify is never treated as authenticated.
C22_AuthenticatedOnlyIfVerified ==
    (DashboardAnswered /\ response.page = "dashboard") =>
        TokenVerifies(response.token, request.key_present)

\* no token of the request decodes
CarriesNoValidToken ==
    /\ ~TokenDecodes(request.url_token)
    /\ ~TokenDecodes(request.header.token)
    /\ ~TokenDecodes(request.cookie)

\* C23: a dashboard request that carries no valid token (none at all, or
\* only tokens that cannot be decoded) is answered with the demo dashboard,
\* never with a redirect or an error page.
C23_DemoWithoutValidToken ==
    (DashboardAnswered /\ CarriesNoValidToken) => response.page = "demo"

\* the URL parameter holds a token that decodes
UrlTokenDecodes == Truthy(request.url_token) /\ TokenDecodes(request.url_token)

\* a decodable URL token is answered by the redirect to the clean URL with
\* the token as cookie, nothing fetched; otherwise the token of a Bearer
\* header comes before the cookie
UrlThenHeaderThenCookie ==
    /\ UrlTokenDecodes =>
          /\ response.page = "redirect_dashboard"
          /\ response.set_cookie = request.url_token
          /\ response.history_requests = 0
          /\ response.financial_data = NoFinancialData
    /\ (~UrlTokenDecodes /\ request.header.scheme = "Bearer") =>
          /\ response.page # "redirect_dashboard"
          /\ Truthy(request.header.token) =>
                (response.source = "header" /\ response.token = request.header.token)
          /\ response.source # "cookie"
    /\ (~UrlTokenDecodes /\ request.header.scheme # "Bearer"
           /\ Truthy(request.cookie)) =>
          (response.source = "cookie" /\ response.token = request.cookie)

\* C24 (as stated): the token is selected in the order URL parameter, Bearer
\* header, cookie; a cookie token is used only when neither the URL
\* parameter nor a Bearer header supplies a token; a decodable URL token is
\* always answered by the redirect to the clean URL with the token stored
\* as cookie, before any financial data is fetched.
C24_CookieOnlyWithoutUrlOrBearer ==
    DashboardAnswered =>
        /\ UrlThenHeaderThenCookie
        /\ response.source = "cookie" =>
              (~Truthy(request.url_token) /\ request.header.scheme # "Bearer")

\* C24 (amended): the same, the cookie token being used only when the URL
\* parameter supplies no decodable token and the request has no Bearer
\* header.
C24_CookieOnlyWithoutDecodableUrlOrBearer ==
    DashboardAnswered =>
        /\ UrlThenHeaderThenCookie
        /\ response.source = "cookie" =>
              (~UrlTokenDecodes /\ request.header.scheme # "Bearer")

\* C24 witness: an undecodable URL token, a Bearer header and a cookie; the
\* dashboard is rendered for the token of the header
C24_Witness ==
    /\ DashboardAnswered
    /\ request.url_token = "garbage"
    /\ request.header = BearerHeader("signed")
    /\ request.cookie = "forged"
    /\ response.page = "dashboard"
    /\ response.source = "header"
    /\ response.token = "signed"

\* C26: for a POST /api/chat with a non-empty message, the financial data
\* handed to the AI advisor is never absent.
C26_ContextNeverAbsent ==
    (request.op = "chat" /\ response.advisor_called) =>
        response.financial_data # NoFinancialData

\* one of the failures of the Adzuna search
AdzunaFailed ==
    \/ ~request.credentials
    \/ request.adzuna.kind # "ok"
    \/ request.adzuna.results = <<>>

\* C27: whenever the credentials are absent, the Adzuna request raises,
\* returns a non-200 status or returns no results, the jobs of the response
\* are the two-entry mock list; the jobs of a response are never empty.
C27_MockWhenAdzunaFails ==
    request.op = "jobs" =>
        /\ AdzunaFailed => (response.jobs = MockJobs /\ Len(response.jobs) = 2)
        /\ response.jobs # <<>>

\* C27 witness: with credentials, Adzuna answers with a non-200 status
C27_Witness ==
    /\ request.op = "jobs"
    /\ request.credentials
    /\ request.adzuna = AdzunaStatus
    /\ response.jobs = MockJobs

\* the history requests of a fetch whose balance request did not fail: the
\* full pages up to max_pages, and the page after them if within max_pages
ExpectedRequests(history) == Min(history.full + 1, max_pages)

\* the pages in page order
ExpectedTransactions(history) ==
    LET pages == Min(history.full, max_pages)
        full == [i \in 1..(pages * PageSize) |-> history.fullTx]
    IN  IF history.full < max_pages /\ history.last.kind = "ok"
           /\ IsList(history.last.body)
        THEN full \o history.last.body.items
        ELSE full

\* C28: the pagination loop makes at most 10 history requests and stops at
\* the first response that is non-200, empty, not a list or shorter than 50
\* records; the collected transactions are the fetched pages in page order.
C28_PaginationBounded ==
    request.op = "financial_data" =>
        /\ response.history_requests <= max_pages
        /\ (response.outcome = "returned" /\ request.balance.kind # "error") =>
              response.history_requests = ExpectedRequests(request.history)
        /\ (response.outcome = "returned" /\ "savings_gap" \in DOMAIN response.data) =>
              response.data.transactions = ExpectedTransactions(request.history)

\* C28 witness: the history has more than max_pages full pages and the loop
\* stopped after max_pages requests
C28_Witness ==
    /\ request.op = "financial_data"
    /\ response.outcome = "returned"
    /\ request.history.full > max_pages
    /\ response.history_requests = max_pages
    /\ Len(response.data.transactions) = max_pages * PageSize

\* C29: the health score lies in 0..100 for every input.
C29_HealthScoreRange ==
    /\ request.op = "health_score" =>
          (0 <= response.score /\ response.score <= 100 * ScoreUnit)
    /\ (DashboardAnswered /\ response.page = "dashboard") =>
          /\ 0 <= response.analysis.health_score
          /\ response.analysis.health_score <= 100 * ScoreUnit

\* C29 witness: negative savings rate and net worth, expenses of twice the
\* income: every component is clamped at 0
C29_Witness ==
    /\ request.op = "health_score"
    /\ request.savings_rate < 0
    /\ request.net_worth < 0
    /\ request.monthly_income > 0
    /\ request.spending_analysis = SpendingAnalysis(TRUE, 450000, 2)
    /\ response.score = 0

GoalKeys ==
    { "user_age", "years_to_retirement", "retirement_goal",
      "additional_monthly_savings_needed", "savings_gap" }

\* a request of the fetch raised a request error
FetchInterrupted ==
    \/ request.balance.kind = "error"
    \/ request.history.full < max_pages /\ request.history.last.kind = "error"

\* C30: the goal fields of the returned data are all present or all absent;
\* they are absent exactly when a request error interrupted the fetch, and
\* then the fields set before the error keep their value and the others
\* their initial value.
C30_GoalFieldsAllOrNothing ==
    (request.op = "financial_data" /\ response.outcome = "returned") =>
        LET present == GoalKeys \cap DOMAIN response.data
            fd0 == InitialFinancialData(request.account_id)
        IN  /\ present \in {{}, GoalKeys}
            /\ (present = {}) <=> FetchInterrupted
            /\ FetchInterrupted =>
                  response.data =
                      IF request.balance.kind = "ok"
                      THEN [fd0 EXCEPT !.current_balance =
                                          FromCents(request.balance.body.val)]
                      ELSE fd0

\* C30 witness: the balance was read, a full page was fetched and the next
\* history request raised
C30_Witness ==
    /\ request.op = "financial_data"
    /\ response.outcome = "returned"
    /\ request.balance.kind = "ok"
    /\ request.history.full >= 1
    /\ request.history.last.kind = "error"
    /\ response.data.current_balance # 0
    /\ response.data.transactions = <<>>
    /\ GoalKeys \cap DOMAIN response.data = {}

=============================================================================
